---- MODULE Spec2Model ----
(***************************************************************************)
(* Shift-logging backend: the REST routes of routes/shifts.ts, the GraphQL *)
(* resolvers of resolvers/auth0.ts, the role route of routes/auth.ts and   *)
(* the mutable facility location, as one state machine.  Every handler is  *)
(* split at the awaits on the persistence layer: one action per database   *)
(* call together with the synchronous code that follows it.                *)
(*                                                                         *)
(* Units: coordinates are integers in 1e-7 degree, so that the rounding to *)
(* 6 decimals does something; distances are integers in centimetres;       *)
(* radii are in metres.                                                    *)
(***************************************************************************)
EXTENDS Integers, Sequences, FiniteSets, TLC

(***************************************************************************)
(* Bounds of the model.                                                    *)
(***************************************************************************)
MaxShifts == 2

\* the last instant of the server clock in the specifications where it advances
MaxTime == 3
\* the most shifts in the table of the specification that starts with a history
MaxHistory == 31

Workers == {"w1", "w2"}
Requests == {"r1", "r2"}

(***************************************************************************)
(* JavaScript values as they arrive in a JSON body and as numbers.         *)
(***************************************************************************)
Undefined == [t |-> "undefined", v |-> 0]
Null == [t |-> "null", v |-> 0]
NaN == [t |-> "nan", v |-> 0]
Infinity == [t |-> "infinity", v |-> 0]
Text == [t |-> "text", v |-> 0]
Num(n) == [t |-> "num", v |-> n]
Str(n) == [t |-> "str", v |-> n]

\* !x of JavaScript: undefined, null, NaN and 0 are falsy, any non-empty string is truthy
Falsy(x) ==
    \/ x.t \in {"undefined", "null", "nan"}
    \/ x.t = "num" /\ x.v = 0

\* parseFloat: a number stays, a numeric string is parsed, anything else is NaN
parseFloat(x) ==
    CASE x.t = "num" -> x
      [] x.t = "str" -> Num(x.v)
      [] x.t = "infinity" -> Infinity
      [] OTHER -> NaN

\* Math.round(x * 1000000) / 1000000 on a value in 1e-7 degree (round half up)
Round6(x) ==
    IF x.t = "num" THEN Num(((x.v + 5) \div 10) * 10) ELSE x

isNaN(x) == x.t = "nan"

Abs(n) == IF n < 0 THEN -n ELSE n

\* Math.abs(x) > limit, false for NaN
AbsGreater(x, limit) ==
    \/ x.t = "infinity"
    \/ x.t = "num" /\ Abs(x.v) > limit

Deg90 == 900000000
Deg180 == 1800000000

(***************************************************************************)
(* R * c of the haversine formula in centimetres (rounded down), for the   *)
(* rounded coordinates the model uses, evaluated with the code's formula   *)
(* and R = 6371e3.                                                         *)
(***************************************************************************)
Haversine ==
    <<0, 774665410, 0, 774665410>> :> 0 @@
    <<0, 774665410, 0, 775000000>> :> 372047 @@
    <<0, 774665410, 100000, 774665410>> :> 111194 @@
    <<0, 774665410, 100000, 775000000>> :> 388308 @@
    <<0, 774665410, 130670140, 774665410>> :> 145298566 @@
    <<0, 774665410, 130670140, 775000000>> :> 145299034 @@
    <<0, 774665410, 131000000, 774665410>> :> 145665353 @@
    <<0, 774665410, 131000000, 775000000>> :> 145665820 @@
    <<0, 775000000, 0, 774665410>> :> 372047 @@
    <<0, 775000000, 0, 775000000>> :> 0 @@
    <<0, 775000000, 100000, 774665410>> :> 388308 @@
    <<0, 775000000, 100000, 775000000>> :> 111194 @@
    <<0, 775000000, 130670140, 774665410>> :> 145299034 @@
    <<0, 775000000, 130670140, 775000000>> :> 145298566 @@
    <<0, 775000000, 131000000, 774665410>> :> 145665820 @@
    <<0, 775000000, 131000000, 775000000>> :> 145665353 @@
    <<100000, 774665410, 0, 774665410>> :> 111194 @@
    <<100000, 774665410, 0, 775000000>> :> 388308 @@
    <<100000, 774665410, 100000, 774665410>> :> 0 @@
    <<100000, 774665410, 100000, 775000000>> :> 372047 @@
    <<100000, 774665410, 130670140, 774665410>> :> 145187371 @@
    <<100000, 774665410, 130670140, 775000000>> :> 145187839 @@
    <<100000, 774665410, 131000000, 774665410>> :> 145554158 @@
    <<100000, 774665410, 131000000, 775000000>> :> 145554626 @@
    <<100000, 775000000, 0, 774665410>> :> 388308 @@
    <<100000, 775000000, 0, 775000000>> :> 111194 @@
    <<100000, 775000000, 100000, 774665410>> :> 372047 @@
    <<100000, 775000000, 100000, 775000000>> :> 0 @@
    <<100000, 775000000, 130670140, 774665410>> :> 145187839 @@
    <<100000, 775000000, 130670140, 775000000>> :> 145187371 @@
    <<100000, 775000000, 131000000, 774665410>> :> 145554626 @@
    <<100000, 775000000, 131000000, 775000000>> :> 145554158 @@
    <<130670140, 774665410, 0, 774665410>> :> 145298566 @@
    <<130670140, 774665410, 0, 775000000>> :> 145299034 @@
    <<130670140, 774665410, 100000, 774665410>> :> 145187371 @@
    <<130670140, 774665410, 100000, 775000000>> :> 145187839 @@
    <<130670140, 774665410, 130670140, 774665410>> :> 0 @@
    <<130670140, 774665410, 130670140, 775000000>> :> 362413 @@
    <<130670140, 774665410, 131000000, 774665410>> :> 366787 @@
    <<130670140, 774665410, 131000000, 775000000>> :> 515615 @@
    <<130670140, 775000000, 0, 774665410>> :> 145299034 @@
    <<130670140, 775000000, 0, 775000000>> :> 145298566 @@
    <<130670140, 775000000, 100000, 774665410>> :> 145187839 @@
    <<130670140, 775000000, 100000, 775000000>> :> 145187371 @@
    <<130670140, 775000000, 130670140, 774665410>> :> 362413 @@
    <<130670140, 775000000, 130670140, 775000000>> :> 0 @@
    <<130670140, 775000000, 131000000, 774665410>> :> 515615 @@
    <<130670140, 775000000, 131000000, 775000000>> :> 366787 @@
    <<131000000, 774665410, 0, 774665410>> :> 145665353 @@
    <<131000000, 774665410, 0, 775000000>> :> 145665820 @@
    <<131000000, 774665410, 100000, 774665410>> :> 145554158 @@
    <<131000000, 774665410, 100000, 775000000>> :> 145554626 @@
    <<131000000, 774665410, 130670140, 774665410>> :> 366787 @@
    <<131000000, 774665410, 130670140, 775000000>> :> 515615 @@
    <<131000000, 774665410, 131000000, 774665410>> :> 0 @@
    <<131000000, 774665410, 131000000, 775000000>> :> 362364 @@
    <<131000000, 775000000, 0, 774665410>> :> 145665820 @@
    <<131000000, 775000000, 0, 775000000>> :> 145665353 @@
    <<131000000, 775000000, 100000, 774665410>> :> 145554626 @@
    <<131000000, 775000000, 100000, 775000000>> :> 145554158 @@
    <<131000000, 775000000, 130670140, 774665410>> :> 515615 @@
    <<131000000, 775000000, 130670140, 775000000>> :> 366787 @@
    <<131000000, 775000000, 131000000, 774665410>> :> 362364 @@
    <<131000000, 775000000, 131000000, 775000000>> :> 0

calculateDistance(lat1, lon1, lat2, lon2) ==
    LET a1 == Round6(lat1)
        o1 == Round6(lon1)
        a2 == Round6(lat2)
        o2 == Round6(lon2)
    IN  IF isNaN(a1) \/ isNaN(o1) \/ isNaN(a2) \/ isNaN(o2) THEN Infinity
        ELSE IF AbsGreater(a1, Deg90) \/ AbsGreater(a2, Deg90)
                \/ AbsGreater(o1, Deg180) \/ AbsGreater(o2, Deg180) THEN Infinity
        ELSE Num(Haversine[<<a1.v, o1.v, a2.v, o2.v>>])

\* the comparison with the radius taken in kilometres
DistanceExceedsKilometres(distance, radius) ==
    CASE distance.t = "nan" \/ radius.t = "nan" -> FALSE
      [] distance.t = "infinity" -> radius.t # "infinity"
      [] radius.t = "infinity" -> FALSE
      [] OTHER -> distance.v > radius.v * 100000

\* distance > GLOBAL_LOCATION.radius: a comparison with NaN is false
DistanceExceeds(distance, radius) ==
    CASE distance.t = "nan" \/ radius.t = "nan" -> FALSE
      [] distance.t = "infinity" -> radius.t # "infinity"
      [] radius.t = "infinity" -> FALSE
      [] OTHER -> distance.v > radius.v * 100

\* Math.round(distance), in metres
RoundMeters(distance) ==
    IF distance.t = "num" THEN Num((distance.v + 50) \div 100) ELSE distance


(***************************************************************************)
(* State.                                                                  *)
(*   users            the User table by external identity (auth0Id): the   *)
(*                    number of rows with it, and the role                 *)
(*   shifts           the Shift table in order of creation (the index is   *)
(*                    the id)                                              *)
(*   GLOBAL_LOCATION  the mutable facility location of routes/shifts.ts    *)
(*   now              the server clock (new Date()); it advances in the    *)
(*                    specifications that have the action Tick             *)
(*   req              the requests on the server: the handler, its         *)
(*                    position, its inputs, its locals and its response,   *)
(*                    and whether a clock request has written a row        *)
(***************************************************************************)
VARIABLES users, shifts, GLOBAL_LOCATION, now, req

vars == <<users, shifts, GLOBAL_LOCATION, now, req>>

NoWorker == "none"

\* password: null of a row created without one
NoPassword == <<>>

NoUser == [exists |-> FALSE, role |-> "CAREWORKER", rows |-> 0, password |-> NoPassword]

\* the DashboardStats of resolvers/auth0.ts before its queries have answered
NoDashboard == [totalStaff |-> 0, activeStaff |-> 0, todayShifts |-> 0, hoursWorked |-> 0]

\* a response: the status and the error, the fields of the geofence error, of a
\* listing the rows (shift ids) with the total and the pages of its pagination,
\* and the two shapes of dashboardStats: one entry per care worker (hours in
\* hundredths), or the system-wide counts (hours in tenths)
NoResponse ==
    [status |-> 0, error |-> "none", distance |-> Undefined,
     allowedRadius |-> Undefined, locationName |-> "none",
     rows |-> <<>>, total |-> 0, pages |-> 0,
     perWorker |-> {}, dashboard |-> NoDashboard, token |-> NoWorker]

IdleRequest ==
    [kind |-> "idle", pc |-> "idle", auth |-> NoWorker, w |-> NoWorker,
     lat |-> Undefined, lng |-> Undefined, note |-> "none", role |-> "",
     page |-> 0, limit |-> 0, today |-> 0, pending |-> {}, wrote |-> FALSE,
     password |-> "",
     user |-> NoWorker, shift |-> 0, db |-> FALSE, resp |-> NoResponse]

Init ==
    /\ users = [w \in Workers |-> NoUser]
    /\ shifts = <<>>
    /\ GLOBAL_LOCATION = [name |-> "Main Healthcare Center",
                          latitude |-> Num(130670140),
                          longitude |-> Num(774665410),
                          radius |-> Num(2000)]
    /\ now = 1
    /\ req = [r \in Requests |-> IdleRequest]

(***************************************************************************)
(* Helpers on the tables and on a request.                                 *)
(***************************************************************************)
\* the where clause with the auth0Id in place of the database id: no row matches
ActiveShiftsOfAuth0Id(w) == {}

\* prisma.shift.findFirst({ where: { userId, clockOutAt: null } }): the rows it may return
ActiveShiftsOf(w) ==
    {i \in 1..Len(shifts) : shifts[i].userId = w /\ shifts[i].clockOutAt = Null}

Free(r) == req[r].pc = "idle"

\* no constraint on auth0Id: a create never throws
UniqueViolationNever(w) == FALSE

\* auth0Id String @unique: prisma.user.create throws when the table has a row
\* with the auth0Id
UniqueViolation(w) == users[w].exists

\* the rows of the User table with one auth0Id, after prisma.user.create
InsertUser(u, role) ==
    [exists |-> TRUE, role |-> role, rows |-> u.rows + 1, password |-> NoPassword]

\* bcrypt.hash(password, 12) and bcrypt.compare(password, hash)
Hash(password) == <<"bcrypt", password>>

Compare(password, hash) == hash = Hash(password)

\* jwt.sign({ sub: user.auth0Id, ... }): the returned token names the user
Grant(q, w) == [q EXCEPT !.resp.token = w]

\* a new request
Start(kind, pc, auth, w, lat, lng, note) ==
    [IdleRequest EXCEPT !.kind = kind, !.pc = pc, !.auth = auth, !.w = w,
                        !.lat = lat, !.lng = lng, !.note = note]

\* res.status(status).json({ error }) / a thrown GraphQL error
Fail(q, status, error) ==
    [q EXCEPT !.pc = "done", !.resp = [NoResponse EXCEPT !.status = status, !.error = error]]

\* res.json(...) / a returned value
Succeed(q) ==
    [q EXCEPT !.pc = "done", !.resp = [NoResponse EXCEPT !.status = 200]]

\* the 400 of the geofence, with distance, allowedRadius and locationName
FailOutOfRange(q, distance) ==
    [q EXCEPT !.pc = "done",
              !.resp = [NoResponse EXCEPT
                          !.status = 400, !.error = "out_of_range",
                          !.distance = RoundMeters(distance),
                          !.allowedRadius = GLOBAL_LOCATION.radius,
                          !.locationName = GLOBAL_LOCATION.name]]

\* the handler of a clock request has written to the database
Wrote(q) == [q EXCEPT !.wrote = TRUE]

\* request r continues as q
Settle(r, q) == req' = [req EXCEPT ![r] = q]

\* the server clock (new Date()) advances by one of the steps D, up to cap
Tick(D, cap) ==
    /\ \E d \in D : now + d <= cap /\ now' = now + d
    /\ UNCHANGED <<users, shifts, GLOBAL_LOCATION, req>>

\* the response has been sent: the request leaves the server
Respond(r) ==
    /\ req[r].pc = "done"
    /\ req' = [req EXCEPT ![r] = IdleRequest]
    /\ UNCHANGED <<users, shifts, GLOBAL_LOCATION, now>>

(***************************************************************************)
(* POST /shifts/clock-in                                                   *)
(***************************************************************************)
\* if (!userId || latitude === undefined || longitude === undefined)
ClockInMissing(w, lat, lng) ==
    w = NoWorker \/ lat.t = "undefined" \/ lng.t = "undefined"

\* calculateDistance(parseFloat(latitude), parseFloat(longitude), GLOBAL_LOCATION...)
ClockInDistance(lat, lng) ==
    calculateDistance(parseFloat(lat), parseFloat(lng),
                      GLOBAL_LOCATION.latitude, GLOBAL_LOCATION.longitude)

RestClockInBegin(r, auth, w, lat, lng, note) ==
    /\ Free(r)
    /\ LET q == Start("restClockIn", "findUser", auth, w, lat, lng, note)
       IN  Settle(r, IF ClockInMissing(w, lat, lng) THEN Fail(q, 400, "required") ELSE q)
    /\ UNCHANGED <<users, shifts, GLOBAL_LOCATION, now>>

\* prisma.user.findUnique({ where: { auth0Id: userId } })
RestClockInFindUser(r) ==
    /\ req[r].kind = "restClockIn" /\ req[r].pc = "findUser"
    /\ Settle(r, [req[r] EXCEPT
                    !.db = TRUE,
                    !.user = IF users[req[r].w].exists THEN req[r].w ELSE NoWorker,
                    !.pc = IF users[req[r].w].exists THEN "findShift" ELSE "createUser"])
    /\ UNCHANGED <<users, shifts, GLOBAL_LOCATION, now>>

\* the fallback prisma.user.create; auth0Id is unique, a second create throws
RestClockInCreateUser(r) ==
    /\ req[r].kind = "restClockIn" /\ req[r].pc = "createUser"
    /\ IF UniqueViolation(req[r].w)
       THEN /\ Settle(r, Fail(req[r], 500, "failed"))
            /\ UNCHANGED users
       ELSE /\ users' = [users EXCEPT ![req[r].w] = InsertUser(@, "CAREWORKER")]
            /\ Settle(r, Wrote([req[r] EXCEPT !.user = req[r].w, !.pc = "findShift"]))
    /\ UNCHANGED <<shifts, GLOBAL_LOCATION, now>>

\* the geofence checked before the active shift
RestClockInFindShiftGeofenceFirst(r) ==
    /\ req[r].kind = "restClockIn" /\ req[r].pc = "findShift"
    /\ LET q == req[r]
           distance == ClockInDistance(q.lat, q.lng)
       IN  Settle(r, IF DistanceExceeds(distance, GLOBAL_LOCATION.radius)
                     THEN FailOutOfRange(q, distance)
                     ELSE IF ActiveShiftsOf(q.user) # {} THEN Fail(q, 400, "already_active")
                     ELSE [q EXCEPT !.pc = "createShift"])
    /\ UNCHANGED <<users, shifts, GLOBAL_LOCATION, now>>

\* findFirst of the active shift, then the geofence on GLOBAL_LOCATION
RestClockInFindShift(r) ==
    /\ req[r].kind = "restClockIn" /\ req[r].pc = "findShift"
    /\ LET q == req[r]
           distance == ClockInDistance(q.lat, q.lng)
       IN  Settle(r, IF ActiveShiftsOf(q.user) # {} THEN Fail(q, 400, "already_active")
                     ELSE IF DistanceExceeds(distance, GLOBAL_LOCATION.radius)
                          THEN FailOutOfRange(q, distance)
                     ELSE [q EXCEPT !.pc = "createShift"])
    /\ UNCHANGED <<users, shifts, GLOBAL_LOCATION, now>>

NewShift(w, lat, lng, note) ==
    [userId |-> w, clockInAt |-> now, clockOutAt |-> Null,
     clockInLat |-> lat, clockInLng |-> lng, clockInNote |-> note,
     clockOutLat |-> Null, clockOutLng |-> Null, clockOutNote |-> "none"]

\* prisma.shift.create
RestClockInCreateShift(r) ==
    /\ req[r].kind = "restClockIn" /\ req[r].pc = "createShift"
    /\ Len(shifts) < MaxShifts
    /\ shifts' = Append(shifts, NewShift(req[r].user, parseFloat(req[r].lat),
                                         parseFloat(req[r].lng), req[r].note))
    /\ Settle(r, Wrote([Succeed(req[r]) EXCEPT !.shift = Len(shifts) + 1]))
    /\ UNCHANGED <<users, GLOBAL_LOCATION, now>>

(***************************************************************************)
(* POST /shifts/clock-out (the body carries no userName and no userEmail)  *)
(***************************************************************************)
\* if (!userId || !latitude || !longitude)
ClockOutMissing(w, lat, lng) ==
    w = NoWorker \/ Falsy(lat) \/ Falsy(lng)

\* userLat, userLng: Math.round(parseFloat(x) * 1000000) / 1000000
ClockOutCoord(x) == Round6(parseFloat(x))

ClockOutDistance(lat, lng) ==
    calculateDistance(ClockOutCoord(lat), ClockOutCoord(lng),
                      GLOBAL_LOCATION.latitude, GLOBAL_LOCATION.longitude)

RestClockOutBegin(r, auth, w, lat, lng, note) ==
    /\ Free(r)
    /\ LET q == Start("restClockOut", "findUser", auth, w, lat, lng, note)
       IN  Settle(r, IF ClockOutMissing(w, lat, lng) THEN Fail(q, 400, "required") ELSE q)
    /\ UNCHANGED <<users, shifts, GLOBAL_LOCATION, now>>

RestClockOutFindUser(r) ==
    /\ req[r].kind = "restClockOut" /\ req[r].pc = "findUser"
    /\ Settle(r, IF users[req[r].w].exists
                 THEN [req[r] EXCEPT !.db = TRUE, !.user = req[r].w, !.pc = "findShift"]
                 ELSE Fail([req[r] EXCEPT !.db = TRUE], 400, "user_not_found"))
    /\ UNCHANGED <<users, shifts, GLOBAL_LOCATION, now>>

\* the shift closed before the geofence is checked
RestClockOutFindShiftEarlyClose(r) ==
    /\ req[r].kind = "restClockOut" /\ req[r].pc = "findShift"
    /\ LET q == req[r]
           distance == ClockOutDistance(q.lat, q.lng)
       IN  IF ActiveShiftsOf(q.user) = {}
           THEN Settle(r, Fail(q, 400, "no_active_shift")) /\ UNCHANGED shifts
           ELSE \E s \in ActiveShiftsOf(q.user) :
                  /\ shifts' = [shifts EXCEPT ![s].clockOutAt = Num(now)]
                  /\ Settle(r, IF DistanceExceeds(distance, GLOBAL_LOCATION.radius)
                               THEN FailOutOfRange(q, distance)
                               ELSE [q EXCEPT !.shift = s, !.pc = "updateShift"])
    /\ UNCHANGED <<users, GLOBAL_LOCATION, now>>

\* findFirst of the active shift (no orderBy: any of the active rows), then the geofence
RestClockOutFindShift(r) ==
    /\ req[r].kind = "restClockOut" /\ req[r].pc = "findShift"
    /\ LET q == req[r]
           distance == ClockOutDistance(q.lat, q.lng)
       IN  IF ActiveShiftsOf(q.user) = {}
           THEN Settle(r, Fail(q, 400, "no_active_shift"))
           ELSE \E s \in ActiveShiftsOf(q.user) :
                  Settle(r, IF DistanceExceeds(distance, GLOBAL_LOCATION.radius)
                            THEN FailOutOfRange(q, distance)
                            ELSE [q EXCEPT !.shift = s, !.pc = "updateShift"])
    /\ UNCHANGED <<users, shifts, GLOBAL_LOCATION, now>>

\* an update that also stamps the clock-in again
CloseShiftRestamp(s, lat, lng, note) ==
    [s EXCEPT !.clockInAt = now, !.clockOutAt = Num(now), !.clockOutLat = lat,
              !.clockOutLng = lng, !.clockOutNote = note]

\* data: { clockOutAt: new Date(), clockOutLat, clockOutLng, clockOutNote }
CloseShift(s, lat, lng, note) ==
    [s EXCEPT !.clockOutAt = Num(now), !.clockOutLat = lat,
              !.clockOutLng = lng, !.clockOutNote = note]

\* prisma.shift.update({ where: { id: activeShift.id } })
RestClockOutUpdateShift(r) ==
    /\ req[r].kind = "restClockOut" /\ req[r].pc = "updateShift"
    /\ shifts' = [shifts EXCEPT ![req[r].shift] =
                    CloseShift(@, ClockOutCoord(req[r].lat), ClockOutCoord(req[r].lng),
                               req[r].note)]
    /\ Settle(r, Wrote(Succeed(req[r])))
    /\ UNCHANGED <<users, GLOBAL_LOCATION, now>>

(***************************************************************************)
(* POST /locations and PATCH /locations/:id: no await, one step each.      *)
(***************************************************************************)
\* if (!name || !latitude || !longitude); an absent name is ""
LocationMissing(b) == b.name = "" \/ Falsy(b.latitude) \/ Falsy(b.longitude)

\* const { radius = 2000 } = req.body
DefaultRadius == 2000

RadiusOf(b) == IF b.radius.t = "undefined" THEN Num(DefaultRadius) ELSE b.radius

\* the four assignments to GLOBAL_LOCATION of POST /locations
PostedLocation(b) ==
    [name |-> b.name,
     latitude |-> parseFloat(b.latitude),
     longitude |-> parseFloat(b.longitude),
     radius |-> parseFloat(RadiusOf(b))]

\* the four assignments of PATCH /locations/:id
PatchedLocation(b) ==
    [name |-> b.name,
     latitude |-> Round6(parseFloat(b.latitude)),
     longitude |-> Round6(parseFloat(b.longitude)),
     radius |-> parseFloat(RadiusOf(b))]

\* the name and the radius assigned in one request, the coordinates left for later
LocationsPostByField(r, auth, b) ==
    /\ Free(r)
    /\ LET q == Start("locationsPost", "done", auth, NoWorker, b.latitude, b.longitude, "none")
       IN  IF LocationMissing(b)
           THEN /\ Settle(r, Fail(q, 400, "required"))
                /\ UNCHANGED GLOBAL_LOCATION
           ELSE /\ GLOBAL_LOCATION' = [GLOBAL_LOCATION EXCEPT
                                         !.name = PostedLocation(b).name,
                                         !.radius = PostedLocation(b).radius]
                /\ Settle(r, Succeed(q))
    /\ UNCHANGED <<users, shifts, now>>

\* the assignments follow each other without an await: one step
LocationsPost(r, auth, b) ==
    /\ Free(r)
    /\ LET q == Start("locationsPost", "done", auth, NoWorker, b.latitude, b.longitude, "none")
       IN  IF LocationMissing(b)
           THEN /\ Settle(r, Fail(q, 400, "required"))
                /\ UNCHANGED GLOBAL_LOCATION
           ELSE /\ GLOBAL_LOCATION' = PostedLocation(b)
                /\ Settle(r, Succeed(q))
    /\ UNCHANGED <<users, shifts, now>>

LocationsPatch(r, auth, b) ==
    /\ Free(r)
    /\ LET q == Start("locationsPatch", "done", auth, NoWorker, b.latitude, b.longitude, "none")
       IN  IF LocationMissing(b)
           THEN /\ Settle(r, Fail(q, 400, "required"))
                /\ UNCHANGED GLOBAL_LOCATION
           ELSE /\ GLOBAL_LOCATION' = PatchedLocation(b)
                /\ Settle(r, Succeed(q))
    /\ UNCHANGED <<users, shifts, now>>

(***************************************************************************)
(* POST /users/sync, PATCH /users/:userId, PATCH /auth/user/:userId/role.  *)
(* Of a user the model keeps the existence and the role; name and email    *)
(* are not part of the state.                                              *)
(***************************************************************************)
\* const { auth0Id, name, email, role } = req.body; an absent role is ""
UsersSyncBegin(r, auth, w, role) ==
    /\ Free(r)
    /\ Settle(r, [Start("usersSync", "findUser", auth, w, Undefined, Undefined, "none")
                     EXCEPT !.role = role])
    /\ UNCHANGED <<users, shifts, GLOBAL_LOCATION, now>>

UsersSyncFindUser(r) ==
    /\ req[r].kind = "usersSync" /\ req[r].pc = "findUser"
    /\ Settle(r, [req[r] EXCEPT
                    !.db = TRUE,
                    !.pc = IF users[req[r].w].exists THEN "updateUser" ELSE "createUser"])
    /\ UNCHANGED <<users, shifts, GLOBAL_LOCATION, now>>

\* prisma.user.update, role: role || existingUser.role (the snapshot is not kept:
\* the update writes the role of the body or leaves the stored one)
UsersSyncUpdateUser(r) ==
    /\ req[r].kind = "usersSync" /\ req[r].pc = "updateUser"
    /\ users' = [users EXCEPT ![req[r].w].role = IF req[r].role = "" THEN @ ELSE req[r].role]
    /\ Settle(r, Succeed(req[r]))
    /\ UNCHANGED <<shifts, GLOBAL_LOCATION, now>>

\* prisma.user.create, role: role || 'CAREWORKER'; a duplicate auth0Id throws
UsersSyncCreateUser(r) ==
    /\ req[r].kind = "usersSync" /\ req[r].pc = "createUser"
    /\ IF UniqueViolation(req[r].w)
       THEN /\ Settle(r, Fail(req[r], 500, "failed"))
            /\ UNCHANGED users
       ELSE /\ users' = [users EXCEPT ![req[r].w] =
                           InsertUser(@, IF req[r].role = "" THEN "CAREWORKER"
                                         ELSE req[r].role)]
            /\ Settle(r, Succeed(req[r]))
    /\ UNCHANGED <<shifts, GLOBAL_LOCATION, now>>

\* PATCH /users/:userId: if (!name && !email) 400, then findUnique
UserPatchBegin(r, auth, w, given) ==
    /\ Free(r)
    /\ LET q == Start("userPatch", "findUser", auth, w, Undefined, Undefined, "none")
       IN  Settle(r, IF given THEN q ELSE Fail(q, 400, "required"))
    /\ UNCHANGED <<users, shifts, GLOBAL_LOCATION, now>>

UserPatchFindUser(r) ==
    /\ req[r].kind = "userPatch" /\ req[r].pc = "findUser"
    /\ Settle(r, IF users[req[r].w].exists
                 THEN [req[r] EXCEPT !.db = TRUE, !.user = req[r].w, !.pc = "updateUser"]
                 ELSE Fail([req[r] EXCEPT !.db = TRUE], 404, "user_not_found"))
    /\ UNCHANGED <<users, shifts, GLOBAL_LOCATION, now>>

\* prisma.user.update of name and email
UserPatchUpdateUser(r) ==
    /\ req[r].kind = "userPatch" /\ req[r].pc = "updateUser"
    /\ Settle(r, Succeed(req[r]))
    /\ UNCHANGED <<users, shifts, GLOBAL_LOCATION, now>>

\* PATCH /auth/user/:userId/role: one prisma.user.update, which throws for an unknown id
RoleChange(r, auth, w, role) ==
    /\ Free(r)
    /\ LET q == [Start("roleChange", "done", auth, w, Undefined, Undefined, "none")
                    EXCEPT !.db = TRUE, !.role = role]
       IN  IF users[w].exists
           THEN /\ users' = [users EXCEPT ![w].role = role]
                /\ Settle(r, Succeed(q))
           ELSE /\ Settle(r, Fail(q, 500, "failed"))
                /\ UNCHANGED users
    /\ UNCHANGED <<shifts, GLOBAL_LOCATION, now>>

\* POST /auth/user: if (!auth0Id || !email) 400, then findUnique
UserPostBegin(r, auth, w, given) ==
    /\ Free(r)
    /\ LET q == Start("userPost", "findUser", auth, w, Undefined, Undefined, "none")
       IN  Settle(r, IF given THEN q ELSE Fail(q, 400, "required"))
    /\ UNCHANGED <<users, shifts, GLOBAL_LOCATION, now>>

UserPostFindUser(r) ==
    /\ req[r].kind = "userPost" /\ req[r].pc = "findUser"
    /\ Settle(r, IF users[req[r].w].exists
                 THEN Succeed([req[r] EXCEPT !.db = TRUE, !.user = req[r].w])
                 ELSE [req[r] EXCEPT !.db = TRUE, !.pc = "createUser"])
    /\ UNCHANGED <<users, shifts, GLOBAL_LOCATION, now>>

\* prisma.user.create with role: 'CAREWORKER'; a duplicate auth0Id throws
UserPostCreateUser(r) ==
    /\ req[r].kind = "userPost" /\ req[r].pc = "createUser"
    /\ IF UniqueViolation(req[r].w)
       THEN /\ Settle(r, Fail(req[r], 500, "failed"))
            /\ UNCHANGED users
       ELSE /\ users' = [users EXCEPT ![req[r].w] = InsertUser(@, "CAREWORKER")]
            /\ Settle(r, Succeed([req[r] EXCEPT !.user = req[r].w]))
    /\ UNCHANGED <<shifts, GLOBAL_LOCATION, now>>

\* Mutation.signUp of the resolvers with passwords: it takes no context; the
\* user of the e-mail address is the worker w
SignUpBegin(r, auth, w, role, password) ==
    /\ Free(r)
    /\ LET q == [Start("signUp", "findUser", auth, w, Undefined, Undefined, "none")
                    EXCEPT !.role = role, !.password = password]
       IN  Settle(r, IF role # "CAREWORKER" THEN Fail(q, 200, "signup_role") ELSE q)
    /\ UNCHANGED <<users, shifts, GLOBAL_LOCATION, now>>

SignUpFindUser(r) ==
    /\ req[r].kind = "signUp" /\ req[r].pc = "findUser"
    /\ Settle(r, IF users[req[r].w].exists
                 THEN Fail([req[r] EXCEPT !.db = TRUE], 200, "user_exists")
                 ELSE [req[r] EXCEPT !.db = TRUE, !.pc = "createUser"])
    /\ UNCHANGED <<users, shifts, GLOBAL_LOCATION, now>>

\* prisma.user.create with the role of the input; e-mail and auth0Id are unique
SignUpCreateUser(r) ==
    /\ req[r].kind = "signUp" /\ req[r].pc = "createUser"
    /\ IF UniqueViolation(req[r].w)
       THEN /\ Settle(r, Fail(req[r], 200, "failed"))
            /\ UNCHANGED users
       ELSE /\ users' = [users EXCEPT ![req[r].w] =
                                 [InsertUser(@, req[r].role)
                                     EXCEPT !.password = Hash(req[r].password)]]
            /\ Settle(r, Grant(Succeed([req[r] EXCEPT !.user = req[r].w]), req[r].w))
    /\ UNCHANGED <<shifts, GLOBAL_LOCATION, now>>

\* Mutation.login of the resolvers with passwords: it takes no context; the
\* user of the e-mail address is the worker w
LoginBegin(r, auth, w, password) ==
    /\ Free(r)
    /\ Settle(r, [Start("login", "findUser", auth, w, Undefined, Undefined, "none")
                    EXCEPT !.password = password])
    /\ UNCHANGED <<users, shifts, GLOBAL_LOCATION, now>>

\* findUnique by e-mail; if (user.password) the password is compared, else the
\* login goes on to the token
LoginFindUser(r) ==
    /\ req[r].kind = "login" /\ req[r].pc = "findUser"
    /\ LET q == [req[r] EXCEPT !.db = TRUE]
           user == users[req[r].w]
       IN  Settle(r, IF ~user.exists THEN Fail(q, 200, "invalid_credentials")
                     ELSE IF user.password # NoPassword THEN [q EXCEPT !.pc = "compare"]
                     ELSE Grant(Succeed([q EXCEPT !.user = req[r].w]), req[r].w))
    /\ UNCHANGED <<users, shifts, GLOBAL_LOCATION, now>>

\* await bcrypt.compare(password, user.password); no operation changes the
\* password of a row, so the row read by findUnique still has it
LoginCompare(r) ==
    /\ req[r].kind = "login" /\ req[r].pc = "compare"
    /\ Settle(r, IF ~Compare(req[r].password, users[req[r].w].password)
                 THEN Fail(req[r], 200, "invalid_credentials")
                 ELSE Grant(Succeed([req[r] EXCEPT !.user = req[r].w]), req[r].w))
    /\ UNCHANGED <<users, shifts, GLOBAL_LOCATION, now>>

\* the listings GET /shifts/active/:userId, /shifts, /users, /staff/active,
\* /shifts/logs; they only read
RestRoutes == {"active", "shifts", "users", "staffActive", "shiftLogs"}

RestQuery(r, auth, w, route) ==
    /\ Free(r)
    /\ Settle(r, Succeed([Start(route, "done", auth, w, Undefined, Undefined, "none")
                             EXCEPT !.db = TRUE]))
    /\ UNCHANGED <<users, shifts, GLOBAL_LOCATION, now>>

(***************************************************************************)
(* GET /shifts/history/:userId?page=&limit=                                *)
(***************************************************************************)
\* const { page = 1, limit = 10 } = req.query
DefaultPage == 1
DefaultLimit == 10

\* orderBy: { clockInAt: 'desc' } on the rows S: the orders the database may
\* return them in (rows with equal clockInAt come in any order)
NewestFirst(S) ==
    {o \in [1..Cardinality(S) -> S] :
       /\ \A i, j \in 1..Cardinality(S) : i # j => o[i] # o[j]
       /\ \A i, j \in 1..Cardinality(S) :
            i < j => shifts[o[i]].clockInAt >= shifts[o[j]].clockInAt}

\* skip: page * limit, the pages counted from 0
PageOfFromZero(o, page, limit) ==
    LET skip == page * limit
        last == IF skip + limit < Len(o) THEN skip + limit ELSE Len(o)
    IN  SubSeq(o, skip + 1, last)

\* skip: (page - 1) * limit, take: limit
PageOf(o, page, limit) ==
    LET skip == (page - 1) * limit
        last == IF skip + limit < Len(o) THEN skip + limit ELSE Len(o)
    IN  SubSeq(o, skip + 1, last)

\* Math.ceil(total / limit)
Ceil(total, limit) == (total + limit - 1) \div limit

\* where: { userId: user.id }
ShiftsOf(w) == {i \in 1..Len(shifts) : shifts[i].userId = w}

HistoryBegin(r, auth, w, page, limit) ==
    /\ Free(r)
    /\ Settle(r, [Start("history", "findUser", auth, w, Undefined, Undefined, "none")
                     EXCEPT !.page = page, !.limit = limit])
    /\ UNCHANGED <<users, shifts, GLOBAL_LOCATION, now>>

\* findUnique of the user; without one: shifts [], pagination 1, 10, 0, 0
HistoryFindUser(r) ==
    /\ req[r].kind = "history" /\ req[r].pc = "findUser"
    /\ Settle(r, IF users[req[r].w].exists
                 THEN [req[r] EXCEPT !.db = TRUE, !.user = req[r].w, !.pc = "findMany"]
                 ELSE Succeed([req[r] EXCEPT !.db = TRUE]))
    /\ UNCHANGED <<users, shifts, GLOBAL_LOCATION, now>>

\* prisma.shift.findMany with where, orderBy, skip and take
HistoryFindMany(r) ==
    /\ req[r].kind = "history" /\ req[r].pc = "findMany"
    /\ \E o \in NewestFirst(ShiftsOf(req[r].user)) :
         Settle(r, [req[r] EXCEPT !.pc = "count",
                                  !.resp.rows = PageOf(o, req[r].page, req[r].limit)])
    /\ UNCHANGED <<users, shifts, GLOBAL_LOCATION, now>>

\* prisma.shift.count, then res.json
HistoryCount(r) ==
    /\ req[r].kind = "history" /\ req[r].pc = "count"
    /\ LET total == Cardinality(ShiftsOf(req[r].user))
       IN  Settle(r, [req[r] EXCEPT !.pc = "done",
                                    !.resp.status = 200,
                                    !.resp.total = total,
                                    !.resp.pages = Ceil(total, req[r].limit)])
    /\ UNCHANGED <<users, shifts, GLOBAL_LOCATION, now>>

(***************************************************************************)
(* GraphQL: the context function of index.ts, then the resolver.           *)
(***************************************************************************)
\* dashboardStats is the resolver of resolvers/auth0.ts (one DashboardStats),
\* dashboardStatsList the resolver of the same name that returns DashboardStats[]
GqlQueries ==
    {"me", "shifts", "staffClockedIn", "staffShiftLogs", "dashboardStats",
     "dashboardStatsList"}
GqlMutations == {"gqlClockIn", "gqlClockOut"}
ManagerOnly == {"staffClockedIn", "staffShiftLogs", "dashboardStats", "dashboardStatsList"}
GqlListings == {"shifts", "staffClockedIn", "staffShiftLogs"}

\* the length of a day in instants of the server clock (an instant is 160 minutes,
\* so that eight hours are three instants); instant 0 is a local midnight
Day == 9
Week == 7 * Day
Month == 30 * Day

\* the midnight of a timezone some hours east of the server
StartOfDayAbroad(t) == t - ((t + 4) % Day)

\* new Date(y, m, d) and setHours(0, 0, 0, 0): the local midnight before t
StartOfDay(t) == t - (t % Day)

\* the counts that Promise.all of resolvers/auth0.ts asks for
DashboardCounts == {"totalStaff", "activeStaff", "todayShifts"}

\* the first lines of a resolver, with context.user = [exists, role]:
\* if (!context.user) / if (!context.user || context.user.role !== MANAGER)
Denied(kind, user) ==
    IF ~user.exists THEN "not_authenticated"
    ELSE IF kind \in ManagerOnly /\ user.role # "MANAGER" THEN "access_denied"
    ELSE "none"

\* the resolver once context.user is known, up to its first database call
Resolve(q, user) ==
    IF Denied(q.kind, user) # "none" THEN Fail(q, 200, Denied(q.kind, user))
    ELSE IF q.kind = "me" THEN Succeed(q)
    ELSE IF q.kind = "dashboardStats"
         THEN [q EXCEPT !.user = q.w, !.pc = "counts", !.today = StartOfDay(now),
                        !.pending = DashboardCounts]
    ELSE [q EXCEPT !.user = q.w,
                   !.pc = IF q.kind \in GqlMutations THEN "findShift" ELSE "query"]

\* without a token the context has user = null and makes no database call; with
\* one, the user is the one of decodedToken.sub
GqlBegin(r, kind, auth, w, lat, lng, note) ==
    /\ Free(r)
    /\ auth \in {NoWorker, w}
    /\ LET q == Start(kind, "context", auth, w, lat, lng, note)
       IN  Settle(r, IF auth # NoWorker THEN q ELSE Resolve(q, NoUser))
    /\ UNCHANGED <<users, shifts, GLOBAL_LOCATION, now>>

\* getOrCreateUser: findUnique by auth0Id
GqlContextFindUser(r) ==
    /\ req[r].kind \in GqlQueries \cup GqlMutations /\ req[r].pc = "context"
    /\ LET q == [req[r] EXCEPT !.db = TRUE]
       IN  Settle(r, IF users[q.w].exists THEN Resolve(q, users[q.w])
                     ELSE [q EXCEPT !.pc = "createUser"])
    /\ UNCHANGED <<users, shifts, GLOBAL_LOCATION, now>>

\* getOrCreateUser: create with role CAREWORKER; an error is caught and gives null
GqlContextCreateUser(r) ==
    /\ req[r].kind \in GqlQueries \cup GqlMutations /\ req[r].pc = "createUser"
    /\ IF UniqueViolation(req[r].w)
       THEN /\ Settle(r, Resolve(req[r], NoUser))
            /\ UNCHANGED users
       ELSE /\ users' = [users EXCEPT ![req[r].w] = InsertUser(@, "CAREWORKER")]
            /\ Settle(r, Resolve(Wrote(req[r]), InsertUser(users[req[r].w], "CAREWORKER")))
    /\ UNCHANGED <<shifts, GLOBAL_LOCATION, now>>

\* the where clause of the findMany of a query resolver: the caller's shifts, the
\* shifts not clocked out, all shifts (take: 100 is more than the table holds)
GqlRows(kind, user) ==
    CASE kind = "shifts" -> ShiftsOf(user)
      [] kind = "staffClockedIn" -> {i \in 1..Len(shifts) : shifts[i].clockOutAt = Null}
      [] kind = "staffShiftLogs" -> 1..Len(shifts)
      [] OTHER -> {}

\* the findMany of a query resolver, orderBy: { clockInAt: 'desc' }
GqlQuery(r) ==
    /\ req[r].kind \in GqlListings /\ req[r].pc = "query"
    /\ \E o \in NewestFirst(GqlRows(req[r].kind, req[r].user)) :
         Settle(r, [Succeed(req[r]) EXCEPT !.resp.rows = o])
    /\ UNCHANGED <<users, shifts, GLOBAL_LOCATION, now>>

\* Math.round(n / d) for n >= 0 and d > 0
RoundDiv(n, d) == (2 * n + d) \div (2 * d)

\* clockOutAt.getTime() - clockInAt.getTime() of a completed shift, in instants
Duration(i) == shifts[i].clockOutAt.v - shifts[i].clockInAt

\* the reduce over completed shifts: the sum of their durations
RECURSIVE SumDuration(_)
SumDuration(S) ==
    IF S = {} THEN 0
    ELSE LET i == CHOOSE x \in S : TRUE IN Duration(i) + SumDuration(S \ {i})

\* Math.round(hours / n * 100) / 100 in hundredths of an hour, for a sum of m
\* instants (a day has 24 hours)
HoursHundredths(m, n) == RoundDiv(m * 24 * 100, Day * n)

\* Math.round((totalMinutes / 60) * 10) / 10 in tenths of an hour
HoursTenths(m) == RoundDiv(m * 24 * 10, Day)

Min(a, b) == IF a <= b THEN a ELSE b

\* user.shifts.filter(shift => shift.clockInAt >= thirtyDaysAgo && shift.clockOutAt)
recentShifts(w) ==
    {i \in ShiftsOf(w) : shifts[i].clockInAt >= now - Month /\ shifts[i].clockOutAt # Null}

\* the hours of the trailing thirty days shared among the shifts, however many
avgHoursPerDayPerShift(w) ==
    IF Cardinality(recentShifts(w)) > 0
    THEN HoursHundredths(SumDuration(recentShifts(w)), Cardinality(recentShifts(w)))
    ELSE 0

avgHoursPerDay(w) ==
    IF Cardinality(recentShifts(w)) > 0
    THEN HoursHundredths(SumDuration(recentShifts(w)), Min(30, Cardinality(recentShifts(w))))
    ELSE 0

\* user.shifts.filter(shift => shift.clockInAt >= today).length
clockInsToday(w) ==
    Cardinality({i \in ShiftsOf(w) : shifts[i].clockInAt >= StartOfDay(now)})

\* the completed shifts of any week
weeklyShiftsAnyTime(w) == {i \in ShiftsOf(w) : shifts[i].clockOutAt # Null}

\* user.shifts.filter(shift => shift.clockInAt >= weekAgo && shift.clockOutAt)
weeklyShifts(w) ==
    {i \in ShiftsOf(w) : shifts[i].clockInAt >= now - Week /\ shifts[i].clockOutAt # Null}

totalHoursThisWeek(w) == HoursHundredths(SumDuration(weeklyShifts(w)), 1)

\* Query.dashboardStats returning DashboardStats[]: the findMany of the care
\* workers with their shifts, then one entry per care worker
DashboardStatsList(r) ==
    /\ req[r].kind = "dashboardStatsList" /\ req[r].pc = "query"
    /\ LET careWorkers == {w \in Workers : users[w].exists /\ users[w].role = "CAREWORKER"}
           stats == {[userId |-> w,
                      avgHoursPerDay |-> avgHoursPerDay(w),
                      clockInsToday |-> clockInsToday(w),
                      totalHoursThisWeek |-> totalHoursThisWeek(w)] : w \in careWorkers}
       IN  Settle(r, [Succeed(req[r]) EXCEPT !.resp.perWorker = stats])
    /\ UNCHANGED <<users, shifts, GLOBAL_LOCATION, now>>

\* the shifts with clockInAt: { gte: today, lt: tomorrow }
StartedOn(today) ==
    {i \in 1..Len(shifts) : shifts[i].clockInAt >= today /\ shifts[i].clockInAt < today + Day}

\* one of the counts of Promise.all: prisma.user.count({ where: { role: CAREWORKER } }),
\* prisma.shift.count({ where: { clockOutAt: null } }), prisma.shift.count of today
DashboardCount(c, today) ==
    CASE c = "totalStaff" ->
           Cardinality({w \in Workers : users[w].exists /\ users[w].role = "CAREWORKER"})
      [] c = "activeStaff" ->
           Cardinality({i \in 1..Len(shifts) : shifts[i].clockOutAt = Null})
      [] c = "todayShifts" -> Cardinality(StartedOn(today))

\* Query.dashboardStats of resolvers/auth0.ts: the counts of Promise.all answer
\* one by one, in any order
DashboardStatsCount(r) ==
    /\ req[r].kind = "dashboardStats" /\ req[r].pc = "counts"
    /\ \E c \in req[r].pending :
         Settle(r, [req[r] EXCEPT
                      !.pending = @ \ {c},
                      !.pc = IF req[r].pending = {c} THEN "hours" ELSE "counts",
                      !.resp.dashboard[c] = DashboardCount(c, req[r].today)])
    /\ UNCHANGED <<users, shifts, GLOBAL_LOCATION, now>>

\* the findMany of the completed shifts of today, and the returned value
DashboardStatsHours(r) ==
    /\ req[r].kind = "dashboardStats" /\ req[r].pc = "hours"
    /\ LET completed == {i \in StartedOn(req[r].today) : shifts[i].clockOutAt # Null}
           counted == req[r].resp.dashboard
       IN  Settle(r, [Succeed(req[r]) EXCEPT
                        !.today = 0,
                        !.resp.dashboard =
                            [counted EXCEPT !.hoursWorked = HoursTenths(SumDuration(completed))]])
    /\ UNCHANGED <<users, shifts, GLOBAL_LOCATION, now>>

\* Mutation.clockIn: findFirst of the active shift
GqlClockInFindShift(r) ==
    /\ req[r].kind = "gqlClockIn" /\ req[r].pc = "findShift"
    /\ Settle(r, IF ActiveShiftsOf(req[r].user) # {} THEN Fail(req[r], 200, "already_active")
                 ELSE [req[r] EXCEPT !.pc = "createShift"])
    /\ UNCHANGED <<users, shifts, GLOBAL_LOCATION, now>>

\* Mutation.clockIn: prisma.shift.create with input.latitude, input.longitude
GqlClockInCreateShift(r) ==
    /\ req[r].kind = "gqlClockIn" /\ req[r].pc = "createShift"
    /\ Len(shifts) < MaxShifts
    /\ shifts' = Append(shifts, NewShift(req[r].user, req[r].lat, req[r].lng, req[r].note))
    /\ Settle(r, Wrote([Succeed(req[r]) EXCEPT !.shift = Len(shifts) + 1]))
    /\ UNCHANGED <<users, GLOBAL_LOCATION, now>>

\* the where clause without clockOutAt: null: any shift of the user
GqlClockOutFindShiftAnyShift(r) ==
    /\ req[r].kind = "gqlClockOut" /\ req[r].pc = "findShift"
    /\ LET mine == {i \in 1..Len(shifts) : shifts[i].userId = req[r].user}
       IN  IF mine = {}
           THEN Settle(r, Fail(req[r], 200, "no_active_shift"))
           ELSE \E s \in mine : Settle(r, [req[r] EXCEPT !.shift = s, !.pc = "updateShift"])
    /\ UNCHANGED <<users, shifts, GLOBAL_LOCATION, now>>

\* Mutation.clockOut: findFirst of the active shift
GqlClockOutFindShift(r) ==
    /\ req[r].kind = "gqlClockOut" /\ req[r].pc = "findShift"
    /\ IF ActiveShiftsOf(req[r].user) = {}
       THEN Settle(r, Fail(req[r], 200, "no_active_shift"))
       ELSE \E s \in ActiveShiftsOf(req[r].user) :
              Settle(r, [req[r] EXCEPT !.shift = s, !.pc = "updateShift"])
    /\ UNCHANGED <<users, shifts, GLOBAL_LOCATION, now>>

\* Mutation.clockOut: prisma.shift.update
GqlClockOutUpdateShift(r) ==
    /\ req[r].kind = "gqlClockOut" /\ req[r].pc = "updateShift"
    /\ shifts' = [shifts EXCEPT ![req[r].shift] =
                    CloseShift(@, req[r].lat, req[r].lng, req[r].note)]
    /\ Settle(r, Wrote(Succeed(req[r])))
    /\ UNCHANGED <<users, GLOBAL_LOCATION, now>>

(***************************************************************************)
(* The inputs.                                                             *)
(***************************************************************************)
\* latitude, longitude and note of a clock request body
ClockBodies ==
    { [lat |-> Undefined, lng |-> Undefined, note |-> "n1"],
      [lat |-> Num(130670140), lng |-> Num(774665410), note |-> "n1"],
      [lat |-> Num(131000000), lng |-> Num(775000000), note |-> "n2"],
      [lat |-> Num(0), lng |-> Num(774665410), note |-> "n1"],
      [lat |-> Num(910000000), lng |-> Num(774665410), note |-> "n1"],
      [lat |-> Text, lng |-> Num(774665410), note |-> "n2"] }

\* a GraphQL Float is a number or absent
GqlBodies == {b \in ClockBodies : b.lat.t \in {"num", "undefined"}}

LocationBodies ==
    { [name |-> "Annex", latitude |-> Num(100000), longitude |-> Num(774665410),
       radius |-> Num(2000)],
      [name |-> "Annex", latitude |-> Num(131000000), longitude |-> Num(775000000),
       radius |-> Undefined],
      [name |-> "Annex", latitude |-> Str(130670140), longitude |-> Str(774665410),
       radius |-> Text],
      [name |-> "", latitude |-> Num(130670140), longitude |-> Num(774665410),
       radius |-> Num(2000)],
      [name |-> "Annex", latitude |-> Num(0), longitude |-> Num(774665410),
       radius |-> Num(2000)] }

Roles == {"CAREWORKER", "MANAGER"}

\* the passwords of the sign-up and login inputs
Passwords == {"pw1", "pw2"}

\* who sends a request that names worker w: auth is the subject of the bearer
\* token that comes with the request, NoWorker without a token
Self == [w \in Workers |-> {w}]
SelfOrNone == [w \in Workers |-> {w, NoWorker}]
Anyone == [w \in Workers |-> Workers]

\* the requests that can arrive: A[w] are the subjects of the tokens that come
\* with a request naming w, W the workers named, B the clock bodies, L the
\* location bodies, T the subjects of the tokens of a location request
BeginClock(r, A, W, B) ==
    \/ \E w \in W, b \in B : \E auth \in A[w] :
         \/ RestClockInBegin(r, auth, w, b.lat, b.lng, b.note)
         \/ RestClockOutBegin(r, auth, w, b.lat, b.lng, b.note)
    \/ \E w \in W, b \in B \cap GqlBodies, kind \in GqlMutations : \E auth \in A[w] :
         GqlBegin(r, kind, auth, w, b.lat, b.lng, b.note)

BeginLocation(r, T, L) ==
    \E auth \in T, b \in L : LocationsPost(r, auth, b) \/ LocationsPatch(r, auth, b)

BeginOther(r, A, W) ==
    \/ \E w \in W, kind \in GqlQueries : \E auth \in A[w] :
         GqlBegin(r, kind, auth, w, Undefined, Undefined, "none")
    \/ \E w \in W, role \in Roles \cup {""} : \E auth \in A[w] :
         UsersSyncBegin(r, auth, w, role)
    \/ \E w \in W, given \in BOOLEAN : \E auth \in A[w] :
         UserPatchBegin(r, auth, w, given)
    \/ \E w \in W, role \in Roles : \E auth \in A[w] :
         RoleChange(r, auth, w, role)
    \/ \E w \in W, route \in RestRoutes : \E auth \in A[w] :
         RestQuery(r, auth, w, route)
    \/ \E w \in W : \E auth \in A[w] :
         HistoryBegin(r, auth, w, DefaultPage, DefaultLimit)

\* the requests that create users: POST /auth/user and signUp
BeginUser(r, A, W) ==
    \/ \E w \in W, given \in BOOLEAN : \E auth \in A[w] :
         UserPostBegin(r, auth, w, given)
    \/ \E w \in W, role \in Roles : \E auth \in A[w] :
         SignUpBegin(r, auth, w, role, "pw1")

StepUser(r) ==
    \/ UserPostFindUser(r) \/ UserPostCreateUser(r)
    \/ SignUpFindUser(r) \/ SignUpCreateUser(r)

StepClock(r) ==
    \/ RestClockInFindUser(r) \/ RestClockInCreateUser(r)
    \/ RestClockInFindShift(r) \/ RestClockInCreateShift(r)
    \/ RestClockOutFindUser(r) \/ RestClockOutFindShift(r) \/ RestClockOutUpdateShift(r)
    \/ GqlContextFindUser(r) \/ GqlContextCreateUser(r)
    \/ GqlClockInFindShift(r) \/ GqlClockInCreateShift(r)
    \/ GqlClockOutFindShift(r) \/ GqlClockOutUpdateShift(r)
    \/ Respond(r)

StepOther(r) ==
    \/ UsersSyncFindUser(r) \/ UsersSyncUpdateUser(r) \/ UsersSyncCreateUser(r)
    \/ UserPatchFindUser(r) \/ UserPatchUpdateUser(r)
    \/ HistoryFindUser(r) \/ HistoryFindMany(r) \/ HistoryCount(r)
    \/ GqlQuery(r)
    \/ DashboardStatsList(r) \/ DashboardStatsCount(r) \/ DashboardStatsHours(r)

\* the bodies of the specifications that are not about the geofence: at the
\* facility, and away from it
PlainBodies ==
    { [lat |-> Num(130670140), lng |-> Num(774665410), note |-> "n1"],
      [lat |-> Num(131000000), lng |-> Num(775000000), note |-> "n2"] }

AtFacility == { [lat |-> Num(130670140), lng |-> Num(774665410), note |-> "n1"] }

\* two locations that differ from the facility and from each other in every field
SwapLocations ==
    { [name |-> "Annex", latitude |-> Num(131000000), longitude |-> Num(775000000),
       radius |-> Num(6000)],
      [name |-> "Lodge", latitude |-> Num(100000), longitude |-> Num(774665410),
       radius |-> Num(1000)] }

\* valid locations, one of them on the equator with its coordinates sent as
\* strings, and the clock bodies at the coordinates of each and of the facility
LeaveLocations ==
    SwapLocations
    \cup { [name |-> "Equator", latitude |-> Str(0), longitude |-> Str(774665410),
            radius |-> Num(2000)] }

LeaveBodies ==
    AtFacility
    \cup { [lat |-> parseFloat(l.latitude), lng |-> parseFloat(l.longitude), note |-> "n2"] :
             l \in LeaveLocations }

PlainLocations ==
    { [name |-> "Annex", latitude |-> Num(131000000), longitude |-> Num(775000000),
       radius |-> Undefined] }

\* the clock and location routes, with requests that overlap at their awaits
Next ==
    \/ \E r \in Requests : BeginClock(r, Self, Workers, AtFacility)
    \/ \E r \in Requests : BeginLocation(r, {"w1"}, PlainLocations)
    \/ \E r \in Requests : StepClock(r)

Spec == Init /\ [][Next]_vars

\* every route and resolver, called with a bearer token, one request at a time: a
\* request runs to completion before the next one starts
NextSeq ==
    \/ BeginClock("r1", Self, Workers, PlainBodies)
    \/ BeginLocation("r1", {"w1"}, PlainLocations)
    \/ BeginOther("r1", Self, Workers)
    \/ StepClock("r1") \/ StepOther("r1")

SpecSeq == Init /\ [][NextSeq]_vars

\* one caller, one request at a time, the clock and location routes with every body
NextGeo ==
    \/ BeginClock("r1", Self, {"w1"}, ClockBodies)
    \/ BeginLocation("r1", {"w1"}, LocationBodies)
    \/ StepClock("r1")

SpecGeo == Init /\ [][NextGeo]_vars

\* one caller, one request at a time, the clock routes and mutations with every
\* body, the facility location as configured at start
NextBodies ==
    \/ BeginClock("r1", Self, {"w1"}, ClockBodies)
    \/ StepClock("r1")

SpecBodies == Init /\ [][NextBodies]_vars

\* every route and resolver, called with or without a bearer token, one caller,
\* one request at a time
NextAnon ==
    \/ BeginClock("r1", SelfOrNone, {"w1"}, AtFacility)
    \/ BeginLocation("r1", {"w1", NoWorker}, PlainLocations)
    \/ BeginOther("r1", SelfOrNone, {"w1"})
    \/ StepClock("r1") \/ StepOther("r1")

SpecAnon == Init /\ [][NextAnon]_vars

\* the routes and mutations that create users or set a role, and the clock
\* routes, called by any worker for any worker, one request at a time
NextRoles ==
    \/ BeginUser("r1", Anyone, Workers)
    \/ BeginOther("r1", Anyone, Workers)
    \/ BeginClock("r1", Anyone, Workers, AtFacility)
    \/ StepUser("r1") \/ StepOther("r1") \/ StepClock("r1")

SpecRoles == Init /\ [][NextRoles]_vars

\* bodies for a clock-in followed by a clock-out: at the facility, and a latitude
\* written with seven decimals (13.0670143, within a centimetre of the facility)
TripBodies ==
    { [lat |-> Num(130670140), lng |-> Num(774665410), note |-> "n1"],
      [lat |-> Num(130670143), lng |-> Num(774665410), note |-> "n2"] }

\* the clock has advanced since the last clock-in was recorded
Elapsed == \A i \in 1..Len(shifts) : shifts[i].clockInAt < now

\* one worker clocking in and out, one request at a time, while the clock
\* advances; a request arrives after the clock-in before it by at least one instant
NextTrip ==
    \/ Elapsed /\ BeginClock("r1", Self, {"w1"}, TripBodies)
    \/ StepClock("r1")
    \/ Tick({1}, MaxTime)

SpecTrip == Init /\ [][NextTrip]_vars

\* the workers clocking in and out and reading their history page by page, one
\* request at a time, while the clock advances
NextHistory ==
    \/ Elapsed /\ BeginClock("r1", Self, Workers, AtFacility)
    \/ \E w \in Workers, page \in {1, 2, 3}, limit \in {1, 2, DefaultLimit} :
         HistoryBegin("r1", w, w, page, limit)
    \/ \E w \in Workers : GqlBegin("r1", "shifts", w, w, Undefined, Undefined, "none")
    \/ StepClock("r1")
    \/ HistoryFindUser("r1") \/ HistoryFindMany("r1") \/ HistoryCount("r1")
    \/ GqlQuery("r1")
    \/ Tick({1}, MaxTime)

SpecHistory == Init /\ [][NextHistory]_vars

\* worker w1 clocking in and out and manager w2 reading both dashboards, one
\* request at a time, while the clock advances: by eight hours or a little more
\* within the first day, then to the end of the trailing week of the first
\* clock-ins, then to the end of their trailing thirty days
NextStats ==
    \/ Elapsed /\ BeginClock("r1", Self, {"w1"}, AtFacility)
    \/ UsersSyncBegin("r1", "w2", "w2", "MANAGER")
    \/ \E kind \in {"dashboardStats", "dashboardStatsList"} :
         GqlBegin("r1", kind, "w2", "w2", Undefined, Undefined, "none")
    \/ StepClock("r1")
    \/ UsersSyncFindUser("r1") \/ UsersSyncUpdateUser("r1") \/ UsersSyncCreateUser("r1")
    \/ DashboardStatsList("r1") \/ DashboardStatsCount("r1") \/ DashboardStatsHours("r1")
    \/ Tick({Day \div 3, Day \div 3 + 1}, Day - 2)
    \/ Tick({Week - 3}, Week + 4)
    \/ Tick({Month - Week - 1}, Month + 3)

SpecStats == Init /\ [][NextStats]_vars

\* the tables after care worker w1 has clocked in and out at the facility n
\* times, every other instant, for one instant or (every second time) for d, and
\* w2 has been synchronised as a manager
InitAverage ==
    /\ users = [w \in Workers |->
                  [exists |-> TRUE, role |-> IF w = "w1" THEN "CAREWORKER" ELSE "MANAGER",
                   rows |-> 1, password |-> NoPassword]]
    /\ \E n \in 0..MaxHistory, d \in {1, 2} :
         shifts = [i \in 1..n |->
                     [userId |-> "w1", clockInAt |-> 2 * i,
                      clockOutAt |-> Num(2 * i + (IF i % 2 = 0 THEN d ELSE 1)),
                      clockInLat |-> Num(130670140), clockInLng |-> Num(774665410),
                      clockInNote |-> "n1",
                      clockOutLat |-> Num(130670140), clockOutLng |-> Num(774665410),
                      clockOutNote |-> "n1"]]
    /\ GLOBAL_LOCATION = [name |-> "Main Healthcare Center",
                          latitude |-> Num(130670140),
                          longitude |-> Num(774665410),
                          radius |-> Num(2000)]
    /\ now = 2 * MaxHistory + 2
    /\ req = [r \in Requests |-> IdleRequest]

\* manager w2 reading the per-worker dashboard of a long history while the
\* trailing thirty days move past its shifts
NextAverage ==
    \/ GqlBegin("r1", "dashboardStatsList", "w2", "w2", Undefined, Undefined, "none")
    \/ GqlContextFindUser("r1")
    \/ DashboardStatsList("r1")
    \/ Respond("r1")
    \/ Tick({30, Month - 50}, Month + 2 * MaxHistory)

SpecAverage == InitAverage /\ [][NextAverage]_vars

\* worker w1 clocking in and out and manager w2 reading the system-wide
\* dashboard, with requests that overlap at their awaits
NextDash ==
    \/ \E r \in Requests : BeginClock(r, Self, {"w1"}, AtFacility)
    \/ \E r \in Requests : UsersSyncBegin(r, "w2", "w2", "MANAGER")
    \/ \E r \in Requests :
         GqlBegin(r, "dashboardStats", "w2", "w2", Undefined, Undefined, "none")
    \/ \E r \in Requests : StepClock(r)
    \/ \E r \in Requests :
         UsersSyncFindUser(r) \/ UsersSyncUpdateUser(r) \/ UsersSyncCreateUser(r)
    \/ \E r \in Requests : DashboardStatsCount(r) \/ DashboardStatsHours(r)

SpecDash == Init /\ [][NextDash]_vars

\* one caller, one request at a time, clocking in and out at the facility and
\* away from it, the facility location as configured at start
NextFence ==
    \/ BeginClock("r1", Self, {"w1"}, PlainBodies)
    \/ StepClock("r1")

SpecFence == Init /\ [][NextFence]_vars

\* the requests that create the user of an unknown identity on first contact:
\* the clock-in route, POST /auth/user, POST /users/sync and a GraphQL query
\* with a token, with requests that overlap at their awaits
NextContact ==
    \/ \E r \in Requests, w \in Workers, b \in AtFacility :
         RestClockInBegin(r, w, w, b.lat, b.lng, b.note)
    \/ \E r \in Requests, w \in Workers : UserPostBegin(r, w, w, TRUE)
    \/ \E r \in Requests, w \in Workers : UsersSyncBegin(r, w, w, "")
    \/ \E r \in Requests, w \in Workers :
         GqlBegin(r, "me", w, w, Undefined, Undefined, "none")
    \/ \E r \in Requests :
         \/ RestClockInFindUser(r) \/ RestClockInCreateUser(r)
         \/ RestClockInFindShift(r) \/ RestClockInCreateShift(r)
    \/ \E r \in Requests : UserPostFindUser(r) \/ UserPostCreateUser(r)
    \/ \E r \in Requests :
         UsersSyncFindUser(r) \/ UsersSyncUpdateUser(r) \/ UsersSyncCreateUser(r)
    \/ \E r \in Requests : GqlContextFindUser(r) \/ GqlContextCreateUser(r)
    \/ \E r \in Requests : Respond(r)

SpecContact == Init /\ [][NextContact]_vars

\* one worker clocking in and out while the facility location is replaced, with
\* requests that overlap at their awaits
NextSwap ==
    \/ \E r \in Requests : BeginClock(r, Self, {"w1"}, AtFacility)
    \/ \E r \in Requests : BeginLocation(r, {"w1"}, SwapLocations)
    \/ \E r \in Requests : StepClock(r)

SpecSwap == Init /\ [][NextSwap]_vars

\* one worker clocking in and out while the clock advances, with
\* requests that overlap at their awaits
NextTwice ==
    \/ \E r \in Requests : BeginClock(r, Self, {"w1"}, AtFacility)
    \/ \E r \in Requests : StepClock(r)
    \/ Tick({1}, MaxTime)

SpecTwice == Init /\ [][NextTwice]_vars

\* one worker clocking in and out at the coordinates of the locations that the
\* facility is moved to, one request at a time
NextLeave ==
    \/ BeginClock("r1", Self, {"w1"}, LeaveBodies)
    \/ BeginLocation("r1", {"w1"}, LeaveLocations)
    \/ StepClock("r1")

SpecLeave == Init /\ [][NextLeave]_vars

\* sign-ups and logins with passwords next to the first contacts that create a
\* user without one, one request at a time
NextLogin ==
    \/ \E w \in Workers, password \in Passwords :
         \/ SignUpBegin("r1", NoWorker, w, "CAREWORKER", password)
         \/ LoginBegin("r1", NoWorker, w, password)
    \/ \E w \in Workers : UserPostBegin("r1", w, w, TRUE)
    \/ SignUpFindUser("r1") \/ SignUpCreateUser("r1")
    \/ UserPostFindUser("r1") \/ UserPostCreateUser("r1")
    \/ LoginFindUser("r1") \/ LoginCompare("r1")
    \/ Respond("r1")

SpecLogin == Init /\ [][NextLogin]_vars


(***************************************************************************)
(* The properties.                                                         *)
(***************************************************************************)
ClockInKinds == {"restClockIn", "gqlClockIn"}
ClockOutKinds == {"restClockOut", "gqlClockOut"}

\* the shift records of worker w in table t that have clockOutAt = null
OpenShiftsIn(t, w) == {i \in 1..Len(t) : t[i].userId = w /\ t[i].clockOutAt = Null}

\* request r takes the step and is answered by it
Answered(r) == req[r].pc # "done" /\ req'[r].pc = "done"

\* C1: when every request runs to completion before the next one starts, every
\* worker has at most one shift record with clockOutAt = null, over the REST
\* routes and the GraphQL mutations.
C1_AtMostOneActiveShift ==
    \A w \in Workers : Cardinality(OpenShiftsIn(shifts, w)) <= 1

\* a worker with a completed shift and an active one, and a clock-in of that
\* worker just refused
C1_Witness ==
    \E w \in Workers, r \in Requests :
       /\ Cardinality(OpenShiftsIn(shifts, w)) = 1
       /\ \E i \in 1..Len(shifts) : shifts[i].userId = w /\ shifts[i].clockOutAt # Null
       /\ req[r].kind \in ClockInKinds /\ req[r].w = w
       /\ req[r].pc = "done" /\ req[r].resp.error = "already_active"

\* C2: of two clock-ins of one worker that overlap, only one succeeds: no two
\* answered clock-ins of one worker both have their shift still open, and the
\* worker never has two shift records with clockOutAt = null.
C2_ConcurrentClockInExclusive ==
    /\ \A r1, r2 \in Requests :
         (/\ r1 # r2
          /\ req[r1].kind \in ClockInKinds /\ req[r2].kind \in ClockInKinds
          /\ req[r1].w = req[r2].w
          /\ req[r1].pc = "done" /\ req[r2].pc = "done"
          /\ req[r1].resp.error = "none")
         => req[r2].resp.error = "already_active" \/ req[r2].shift \notin OpenShiftsIn(shifts, req[r2].w)
                \/ req[r1].shift \notin OpenShiftsIn(shifts, req[r1].w)
    /\ \A i, j \in 1..Len(shifts) :
         (i < j /\ shifts[i].userId = shifts[j].userId)
         => shifts[i].clockOutAt # Null \/ shifts[j].clockOutAt # Null

\* C3: whether a worker has an active shift changes only by a successful
\* clock-in of that worker (from none to active) or a successful clock-out of
\* that worker (from active to none); no failed request and no other
\* operation changes it.
C3_OnlyClockTransitions ==
    [][\A w \in Workers :
         LET before == OpenShiftsIn(shifts, w) # {}
             after == OpenShiftsIn(shifts', w) # {}
         IN  before # after =>
               \E r \in Requests :
                  /\ req[r].user = w
                  /\ Answered(r)
                  /\ req'[r].resp.error = "none"
                  /\ \/ ~before /\ req[r].kind \in ClockInKinds
                     \/ before /\ req[r].kind \in ClockOutKinds]_vars

\* a clock-out refused by the geofence while the worker's shift stays active
C3_Witness ==
    \E r \in Requests :
       /\ req[r].kind = "restClockOut" /\ req[r].pc = "done"
       /\ req[r].resp.error = "out_of_range"
       /\ OpenShiftsIn(shifts, req[r].user) # {}

\* C4: a clock-in of a worker who has an active shift changes no shift record,
\* and once it carries what the route requires it is answered with the
\* already-active error, whatever its note and coordinates.
C4_ClockInWhileActive ==
    [][\A r \in Requests :
         (/\ req[r].kind \in ClockInKinds
          /\ req'[r] # req[r]
          /\ OpenShiftsIn(shifts, req[r].w) # {})
         => /\ shifts' = shifts
            /\ Answered(r) => req'[r].resp.error = "already_active"
            /\ req[r].pc = "findShift" => Answered(r)]_vars

\* a REST clock-in away from the facility, refused as already active
C4_Witness ==
    \E r \in Requests :
       /\ req[r].kind = "restClockIn" /\ req[r].pc = "done"
       /\ req[r].resp.error = "already_active"
       /\ DistanceExceeds(ClockInDistance(req[r].lat, req[r].lng), GLOBAL_LOCATION.radius)
       /\ Cardinality(OpenShiftsIn(shifts, req[r].w)) = 1

\* C5: a clock-out of a worker who has no active shift changes no shift record
\* and, when it reaches the search for the active shift, is answered with the
\* no-active-shift error.
C5_ClockOutWithoutActive ==
    [][\A r \in Requests :
         (/\ req[r].kind \in ClockOutKinds
          /\ req'[r] # req[r]
          /\ req[r].w \in Workers
          /\ OpenShiftsIn(shifts, req[r].w) = {})
         => /\ shifts' = shifts
            /\ req[r].pc = "findShift"
                 => Answered(r) /\ req'[r].resp.error = "no_active_shift"]_vars

\* a clock-out refused for a worker who has only a completed shift
C5_Witness ==
    \E r \in Requests :
       /\ req[r].kind \in ClockOutKinds /\ req[r].pc = "done"
       /\ req[r].resp.error = "no_active_shift"
       /\ OpenShiftsIn(shifts, req[r].w) = {}
       /\ \E i \in 1..Len(shifts) : shifts[i].userId = req[r].w


\* the validation of POST /shifts/clock-in on a body: the required fields, then
\* the distance against the radius
ClockInAdmits(w, lat, lng) ==
    /\ ~ClockInMissing(w, lat, lng)
    /\ ~DistanceExceeds(ClockInDistance(lat, lng), GLOBAL_LOCATION.radius)

\* a coordinate that is not a number or lies outside [-90, 90] or [-180, 180]
BadCoordinate(lat, lng) ==
    \/ isNaN(parseFloat(lat)) \/ isNaN(parseFloat(lng))
    \/ AbsGreater(parseFloat(lat), Deg90) \/ AbsGreater(parseFloat(lng), Deg180)

\* C6: a clock-in that supplies a location farther from the facility than the
\* radius in force when it is checked creates no shift: on the REST route and
\* on the GraphQL mutation the check answers it with the out-of-range error,
\* which carries the distance, the radius and the location name.
C6_OutOfRangeNeverAdmitted ==
    [][\A r \in Requests :
         (/\ req[r].kind \in ClockInKinds
          /\ req[r].pc = "findShift"
          /\ req'[r] # req[r]
          /\ OpenShiftsIn(shifts, req[r].user) = {}
          /\ req[r].lat.t # "undefined" /\ req[r].lng.t # "undefined"
          /\ DistanceExceeds(ClockInDistance(req[r].lat, req[r].lng), GLOBAL_LOCATION.radius))
         => /\ Answered(r)
            /\ req'[r].resp.error = "out_of_range"
            /\ req'[r].resp.distance = RoundMeters(ClockInDistance(req[r].lat, req[r].lng))
            /\ req'[r].resp.allowedRadius = GLOBAL_LOCATION.radius
            /\ req'[r].resp.locationName = GLOBAL_LOCATION.name]_vars

\* C7: a REST clock-out of a worker with an active shift is refused for its
\* location (a required coordinate, or the distance) exactly when the
\* validation of clock-in refuses the same coordinates; stated for the
\* facility configurations whose radius is a number.
C7_ClockOutValidatesAsClockIn ==
    [][\A r \in Requests :
         (/\ req'[r].kind = "restClockOut"
          /\ Answered(r)
          /\ GLOBAL_LOCATION.radius.t = "num"
          /\ OpenShiftsIn(shifts, req'[r].w) # {})
         => (req'[r].resp.error \in {"required", "out_of_range"}
               <=> ~ClockInAdmits(req'[r].w, req'[r].lat, req'[r].lng))]_vars

\* C8: whatever radius the location updates have left, the geofence of
\* clock-in and clock-out refuses a coordinate that is not a number or is out
\* of range.
C8_BadCoordinateRejected ==
    [][\A r \in Requests :
         (/\ req[r].kind \in {"restClockIn", "restClockOut"}
          /\ req[r].pc = "findShift"
          /\ req'[r] # req[r]
          /\ (req[r].kind = "restClockIn") = (OpenShiftsIn(shifts, req[r].user) = {})
          /\ BadCoordinate(req[r].lat, req[r].lng))
         => Answered(r) /\ req'[r].resp.error = "out_of_range"]_vars

\* C9: a REST clock request whose coordinates are absent, not numbers or out
\* of range makes no persistence access.
C9_MalformedBeforePersistence ==
    \A r \in Requests :
       (/\ req[r].kind \in {"restClockIn", "restClockOut"}
        /\ \/ req[r].lat.t = "undefined" \/ req[r].lng.t = "undefined"
           \/ BadCoordinate(req[r].lat, req[r].lng))
       => ~req[r].db

\* C10: a request without a caller identity makes no persistence access, does
\* not change the facility location and is answered with the not-authenticated
\* error, on every GraphQL operation and every REST route.
C10_UnauthenticatedDenied ==
    \A r \in Requests :
       (req[r].kind # "idle" /\ req[r].auth = NoWorker)
       => /\ ~req[r].db
          /\ req[r].pc = "done" => req[r].resp.error = "not_authenticated"

\* the operations reserved to managers, on the GraphQL and on the REST entry point
ManagerOperations ==
    ManagerOnly \cup {"staffActive", "shiftLogs", "locationsPost", "locationsPatch"}

\* C11: a manager-only operation (the active workers, the shift logs, the
\* dashboard statistics, setting the facility location) called by a user whose
\* role is CAREWORKER is answered with the access-denied error and leaves the
\* facility location as it is; called by a MANAGER it is not denied.
C11_ManagerOnlyOperations ==
    [][\A r \in Requests :
         (/\ Answered(r)
          /\ req'[r].kind \in ManagerOperations
          /\ req'[r].auth \in Workers
          /\ users[req'[r].auth].exists)
         => IF users[req'[r].auth].role = "MANAGER"
            THEN req'[r].resp.error # "access_denied"
            ELSE /\ req'[r].resp.error = "access_denied"
                 /\ GLOBAL_LOCATION' = GLOBAL_LOCATION]_vars

\* C12: a worker comes to hold the role MANAGER only by a request whose caller
\* holds the role MANAGER: PATCH /user/:userId/role, POST /users/sync, POST
\* /user, the fallback user creation of clock-in and signUp never give the
\* role to a worker on behalf of anyone else.
C12_NoRoleEscalation ==
    [][\A w \in Workers :
         (/\ users'[w].exists /\ users'[w].role = "MANAGER"
          /\ ~(users[w].exists /\ users[w].role = "MANAGER"))
         => \E r \in Requests :
               /\ req'[r] # req[r]
               /\ req'[r].auth \in Workers
               /\ users[req'[r].auth].exists
               /\ users[req'[r].auth].role = "MANAGER"]_vars

\* the elements of a sequence
Range(o) == {o[i] : i \in 1..Len(o)}

\* C13: a clock-in creates a shift owned by its caller only, a clock-out closes
\* a shift owned by its caller only, and a history request returns shifts of
\* its caller only.
C13_OwnRecordsOnly ==
    [][\A r \in Requests :
         req'[r] # req[r]
         => /\ Len(shifts') > Len(shifts)
                 => shifts'[Len(shifts')].userId = req'[r].auth
            /\ \A i \in 1..Len(shifts) :
                 shifts'[i] # shifts[i] => shifts[i].userId = req'[r].auth
            /\ (Answered(r) /\ req'[r].kind \in {"history", "shifts"})
                 => \A i \in Range(req'[r].resp.rows) : shifts[i].userId = req'[r].auth]_vars

\* C14: a successful clock-in stores the note and the coordinates it was given,
\* and a successful clock-out given the same note and coordinates as the
\* clock-in of its shift stores them as well, with clockOutAt after clockInAt.
C14_RoundTrip ==
    [][\A r \in Requests :
         (Answered(r) /\ req'[r].resp.error = "none")
         => LET q == req'[r]
                s == shifts'[q.shift]
            IN  /\ q.kind \in ClockInKinds
                     => /\ s.clockInNote = q.note
                        /\ s.clockInLat = parseFloat(q.lat)
                        /\ s.clockInLng = parseFloat(q.lng)
                /\ (/\ q.kind \in ClockOutKinds
                    /\ s.clockInNote = q.note
                    /\ s.clockInLat = parseFloat(q.lat)
                    /\ s.clockInLng = parseFloat(q.lng))
                     => /\ s.clockOutNote = q.note
                        /\ s.clockOutLat = parseFloat(q.lat)
                        /\ s.clockOutLng = parseFloat(q.lng)
                        /\ s.clockOutAt.v > s.clockInAt]_vars

\* the shift records owned by worker w
OwnedBy(w) == {i \in 1..Len(shifts) : shifts[i].userId = w}

\* the number of shifts of worker w that started after shift i
NewerThan(w, i) ==
    Cardinality({j \in OwnedBy(w) : shifts[j].clockInAt > shifts[i].clockInAt})

\* rows is page p of size n of the shifts of worker w, newest first: the row at
\* position k is a shift of w with exactly (p - 1) * n + k - 1 newer shifts of
\* w, and the page is full unless the shifts run out
IsPage(rows, w, p, n) ==
    LET total == Cardinality(OwnedBy(w))
        left == total - (p - 1) * n
    IN  /\ \A k \in 1..Len(rows) :
             rows[k] \in OwnedBy(w) /\ NewerThan(w, rows[k]) = (p - 1) * n + k - 1
        /\ Len(rows) = IF left <= 0 THEN 0 ELSE IF left < n THEN left ELSE n

ListAnswers(r) ==
    /\ req[r].kind = "dashboardStatsList" /\ req[r].pc = "query"
    /\ req'[r].pc = "done"

CareWorkers == {w \in Workers : users[w].exists /\ users[w].role = "CAREWORKER"}

\* the time worker w spent in the first n shifts of the table that are completed
\* and were started in the days instants up to now, in instants
RECURSIVE SpanSince(_, _, _)
SpanSince(w, days, n) ==
    IF n = 0 THEN 0
    ELSE SpanSince(w, days, n - 1)
         + (IF /\ shifts[n].userId = w
               /\ shifts[n].clockOutAt # Null
               /\ shifts[n].clockInAt >= now - days
               /\ shifts[n].clockInAt <= now
            THEN shifts[n].clockOutAt.v - shifts[n].clockInAt
            ELSE 0)

\* h hundredths of an hour are the time of m instants shared among k, rounded to
\* the nearest hundredth (a day of Day instants has 2400 hundredths)
NearestHundredth(h, m, k) ==
    /\ 2 * (h * Day * k - 2400 * m) <= Day * k
    /\ 2 * (2400 * m - h * Day * k) <= Day * k

\* C16: totalHoursThisWeek of a worker is the sum of clockOutAt - clockInAt over
\* exactly the completed shifts of the worker that were started in the trailing
\* seven days, in hours as displayed (to the hundredth); a shift that is still
\* open adds nothing
C16_TotalHoursThisWeek ==
    [][\A r \in Requests :
         ListAnswers(r) =>
           \A w \in CareWorkers :
             \E e \in req'[r].resp.perWorker :
               /\ e.userId = w
               /\ NearestHundredth(e.totalHoursThisWeek, SpanSince(w, Week, Len(shifts)), 1)]_vars

\* the manager reads 8 hours for a worker who has a completed shift of eight
\* hours and an open shift
C16_Witness ==
    \E r \in Requests :
      /\ req[r].kind = "dashboardStatsList" /\ req[r].pc = "done"
      /\ \E e \in req[r].resp.perWorker : e.userId = "w1" /\ e.totalHoursThisWeek = 800
      /\ Len(shifts) = 2
      /\ shifts[1].userId = "w1" /\ shifts[1].clockOutAt # Null
      /\ shifts[1].clockOutAt.v - shifts[1].clockInAt = Day \div 3
      /\ shifts[2].userId = "w1" /\ shifts[2].clockOutAt = Null
      /\ shifts[1].clockInAt >= now - Week

\* the local midnight before the server clock, and the next one
Midnight == now - (now % Day)

\* C17: clockInsToday of a worker is the number of the shift records of the
\* worker with clockInAt in [start of today, start of tomorrow) of the server
\* clock, and the system-wide count of the shifts of today is the number of all
\* shift records started in the day of the request
C17_ClockInsToday ==
    [][\A r \in Requests :
         /\ ListAnswers(r) =>
               \A w \in CareWorkers :
                 \E e \in req'[r].resp.perWorker :
                   /\ e.userId = w
                   /\ e.clockInsToday =
                        Cardinality({i \in 1..Len(shifts) :
                                       /\ shifts[i].userId = w
                                       /\ shifts[i].clockInAt >= Midnight
                                       /\ shifts[i].clockInAt < Midnight + Day})
         /\ (/\ req[r].kind = "dashboardStats" /\ req[r].pc = "counts"
             /\ "todayShifts" \in req[r].pending
             /\ "todayShifts" \notin req'[r].pending) =>
               req'[r].resp.dashboard.todayShifts =
                 Cardinality({i \in 1..Len(shifts) :
                                /\ shifts[i].clockInAt >= req[r].today
                                /\ shifts[i].clockInAt < req[r].today + Day})]_vars

\* the manager reads one clock-in of today for a worker who also clocked in on
\* an earlier day
C17_Witness ==
    \E r \in Requests :
      /\ req[r].kind = "dashboardStatsList" /\ req[r].pc = "done"
      /\ \E e \in req[r].resp.perWorker : e.userId = "w1" /\ e.clockInsToday = 1
      /\ Len(shifts) = 2
      /\ shifts[1].userId = "w1" /\ shifts[1].clockInAt < Midnight
      /\ shifts[2].userId = "w1" /\ shifts[2].clockInAt >= Midnight

\* the completed shifts of worker w that were started in the trailing thirty days
InLastMonth(w) ==
    {i \in 1..Len(shifts) :
       /\ shifts[i].userId = w /\ shifts[i].clockOutAt # Null
       /\ shifts[i].clockInAt >= now - Month /\ shifts[i].clockInAt <= now}

CountAnswers(r, c) ==
    /\ req[r].kind = "dashboardStats" /\ req[r].pc = "counts"
    /\ c \in req[r].pending /\ c \notin req'[r].pending

\* C19: in the system-wide dashboard the active count is the number of distinct
\* workers that have an active shift, and the staff total is the number of
\* distinct workers, whatever requests have interleaved
C19_DashboardCounts ==
    [][\A r \in Requests :
         /\ CountAnswers(r, "activeStaff") =>
               req'[r].resp.dashboard.activeStaff =
                 Cardinality({w \in Workers : ActiveShiftsOf(w) # {}})
         /\ CountAnswers(r, "totalStaff") =>
               req'[r].resp.dashboard.totalStaff =
                 Cardinality({w \in Workers : users[w].exists})]_vars

(***************************************************************************)
(* The distance of the geofence.                                           *)
(***************************************************************************)
\* valid points, some written with seven decimals
ValidPoints ==
    {0, 100000, 130670140, 130670143, 131000000} \X {774665410, 774665412, 775000000}

\* the facility is at (13.067014, 77.466541) with a radius of 2000 m
FacilityAsConfigured ==
    /\ GLOBAL_LOCATION.latitude = Num(130670140)
    /\ GLOBAL_LOCATION.longitude = Num(774665410)
    /\ GLOBAL_LOCATION.radius = Num(2000)

\* POST /shifts/clock-in for a worker without an active shift reaches its
\* geofence with the body (lat, lng), the facility being as configured
GeofenceChecks(r, lat, lng) ==
    /\ req[r].kind = "restClockIn" /\ req[r].pc = "findShift"
    /\ req'[r] # req[r]
    /\ OpenShiftsIn(shifts, req[r].user) = {}
    /\ FacilityAsConfigured
    /\ req[r].lat = lat /\ req[r].lng = lng

\* C20: the distance from a valid point to itself is 0; with the facility at
\* (13.067014, 77.466541) and radius 2000, POST /shifts/clock-in at the facility
\* coordinates is admitted (it goes on to create the shift), and at
\* (13.100000, 77.500000) it is rejected as out of range with a reported
\* distance greater than 2000
C20_DistanceScenario ==
    [][/\ \A p \in ValidPoints :
            calculateDistance(Num(p[1]), Num(p[2]), Num(p[1]), Num(p[2])) = Num(0)
       /\ \A r \in Requests :
            /\ GeofenceChecks(r, Num(130670140), Num(774665410)) =>
                  req'[r].pc = "createShift"
            /\ GeofenceChecks(r, Num(131000000), Num(775000000)) =>
                  /\ Answered(r)
                  /\ req'[r].resp.status = 400
                  /\ req'[r].resp.error = "out_of_range"
                  /\ req'[r].resp.distance.t = "num"
                  /\ req'[r].resp.distance.v > 2000]_vars

\* a clock-in at the facility has been recorded and closed, and the clock-in at
\* (13.100000, 77.500000) is answered with a distance of 5156 m
C20_Witness ==
    \E r \in Requests :
      /\ req[r].kind = "restClockIn" /\ req[r].pc = "done"
      /\ req[r].lat = Num(131000000) /\ req[r].lng = Num(775000000)
      /\ req[r].resp.error = "out_of_range"
      /\ req[r].resp.distance = Num(5156)
      /\ FacilityAsConfigured
      /\ Len(shifts) > 0
      /\ shifts[1].clockInLat = Num(130670140) /\ shifts[1].clockInLng = Num(774665410)
      /\ shifts[1].clockOutAt # Null

(***************************************************************************)
(* The records of the tables.                                              *)
(***************************************************************************)
\* the requests whose handler creates the user of an unknown identity
ContactKinds == {"restClockIn", "userPost", "usersSync", "me"}

RealisticLocation(l) ==
    /\ l.latitude.t = "num" /\ Abs(l.latitude.v) <= Deg90
    /\ l.longitude.t = "num" /\ Abs(l.longitude.v) <= Deg180
    /\ l.radius.t = "num" /\ l.radius.v >= 0

\* C22: the stored facility location always has a latitude in [-90, 90], a
\* longitude in [-180, 180] and a finite radius that is not negative, whatever
\* bodies POST /locations and PATCH /locations/:id have received (an update with
\* another value is rejected and changes nothing)
C22_RealisticLocation == RealisticLocation(GLOBAL_LOCATION)

(***************************************************************************)
(* The facility location seen by the geofence.                             *)
(***************************************************************************)
\* the initial configuration and the records that one update request writes
WholeLocations ==
    {[name |-> "Main Healthcare Center", latitude |-> Num(130670140),
      longitude |-> Num(774665410), radius |-> Num(2000)]}
    \cup {PostedLocation(b) : b \in SwapLocations}
    \cup {PatchedLocation(b) : b \in SwapLocations}

\* the distance between the body of a clock request and a location
DistanceTo(q, l) ==
    IF q.kind = "restClockIn"
    THEN calculateDistance(parseFloat(q.lat), parseFloat(q.lng), l.latitude, l.longitude)
    ELSE calculateDistance(Round6(parseFloat(q.lat)), Round6(parseFloat(q.lng)),
                           l.latitude, l.longitude)

\* C23: a clock-in or clock-out that reaches its geofence decides with the
\* latitude, longitude, radius and name of one whole location (the initial one
\* or the one written by one update): it is answered out of range, with the
\* radius and the name of that location, exactly when the distance to that
\* location exceeds its radius, however the updates interleave with it
C23_WholeLocation ==
    [][\A r \in Requests :
         (/\ req[r].kind \in {"restClockIn", "restClockOut"}
          /\ req[r].pc = "findShift"
          /\ req'[r] # req[r]
          /\ ActiveShiftsOf(req[r].user) # {} <=> req[r].kind = "restClockOut")
         => \E l \in WholeLocations :
              IF DistanceExceeds(DistanceTo(req[r], l), l.radius)
              THEN /\ req'[r].resp.error = "out_of_range"
                   /\ req'[r].resp.distance = RoundMeters(DistanceTo(req[r], l))
                   /\ req'[r].resp.allowedRadius = l.radius
                   /\ req'[r].resp.locationName = l.name
              ELSE req'[r].pc \in {"createShift", "updateShift"}]_vars

\* a clock-out at the facility coordinates is answered out of range with the
\* radius and the name of a location that an update has written
C23_Witness ==
    \E r \in Requests :
      /\ req[r].kind = "restClockOut" /\ req[r].pc = "done"
      /\ req[r].resp.error = "out_of_range"
      /\ req[r].resp.allowedRadius = Num(1000)
      /\ req[r].resp.locationName = "Lodge"

(***************************************************************************)
(* The life of a shift record.                                             *)
(***************************************************************************)
\* C24: once clockOutAt is set on a shift record, its clockOutAt, clock-out note
\* and clock-out location never change again, also when two clock-outs of the
\* worker overlap
C24_ClockOutWrittenOnce ==
    [][\A i \in 1..Len(shifts) :
         shifts[i].clockOutAt # Null =>
           /\ i <= Len(shifts')
           /\ shifts'[i].clockOutAt = shifts[i].clockOutAt
           /\ shifts'[i].clockOutNote = shifts[i].clockOutNote
           /\ shifts'[i].clockOutLat = shifts[i].clockOutLat
           /\ shifts'[i].clockOutLng = shifts[i].clockOutLng]_vars

\* C25: no step removes a shift record, and the owner, clockInAt, clock-in note
\* and clock-in location of a record stay as they were created
C25_ClockInImmutable ==
    [][/\ Len(shifts') >= Len(shifts)
       /\ \A i \in 1..Len(shifts) :
            /\ shifts'[i].userId = shifts[i].userId
            /\ shifts'[i].clockInAt = shifts[i].clockInAt
            /\ shifts'[i].clockInNote = shifts[i].clockInNote
            /\ shifts'[i].clockInLat = shifts[i].clockInLat
            /\ shifts'[i].clockInLng = shifts[i].clockInLng]_vars

\* a shift has been closed at a later instant than it was opened, and another
\* shift has been created since
C25_Witness ==
    /\ Len(shifts) = 2
    /\ shifts[1].clockOutAt # Null
    /\ shifts[1].clockOutAt.v > shifts[1].clockInAt
    /\ shifts[2].clockInAt >= shifts[1].clockOutAt.v

\* C26: when the worker has more than one active shift, a clock-out that
\* succeeds closes the active shift with the latest clockInAt and leaves the
\* other active shifts as they are, on the REST route and the GraphQL mutation
C26_ClosesLatest ==
    [][\A r \in Requests :
         (/\ req[r].kind \in ClockOutKinds
          /\ req[r].pc = "updateShift" /\ req'[r].pc = "done"
          /\ Cardinality(ActiveShiftsOf(req[r].user)) > 1)
         => /\ req[r].shift \in ActiveShiftsOf(req[r].user)
            /\ \A i \in ActiveShiftsOf(req[r].user) :
                 /\ shifts[i].clockInAt <= shifts[req[r].shift].clockInAt
                 /\ i # req[r].shift => shifts'[i] = shifts[i]]_vars

\* C28: two shifts of one worker never overlap in time: the one with the
\* earlier clockInAt has a clockOutAt, not later than the clockInAt of the other
C28_NoOverlap ==
    \A i, j \in 1..Len(shifts) :
      (shifts[i].userId = shifts[j].userId /\ shifts[i].clockInAt < shifts[j].clockInAt)
        => /\ shifts[i].clockOutAt # Null
           /\ shifts[i].clockOutAt.v <= shifts[j].clockInAt

\* C27: a clock-in or clock-out that is rejected has written nothing: no user
\* and no shift is created or changed by a request that is answered with an
\* error
C27_RejectedWritesNothing ==
    \A r \in Requests :
      (/\ req[r].kind \in ClockInKinds \cup ClockOutKinds
       /\ req[r].pc = "done"
       /\ req[r].resp.error # "none")
      => ~req[r].wrote

\* C29: a REST clock-out of a worker with an active shift that carries the
\* latitude and longitude configured for the facility is not answered with an
\* error at any of its steps, and when it is answered the worker has no active
\* shift, wherever the facility has been moved since the clock-in
C29_CanAlwaysLeave ==
    [][\A r \in Requests :
         (/\ req'[r].kind = "restClockOut"
          /\ req'[r] # req[r]
          /\ req'[r].lat = GLOBAL_LOCATION.latitude
          /\ req'[r].lng = GLOBAL_LOCATION.longitude
          /\ ActiveShiftsOf(req'[r].w) # {}
          /\ req'[r].pc = "done")
         => /\ req'[r].resp.error = "none"
            /\ \A i \in 1..Len(shifts') :
                 shifts'[i].userId = req'[r].w => shifts'[i].clockOutAt # Null]_vars

\* C30: a login for an existing worker with a password that does not match the
\* worker's stored credential is answered with the invalid-credentials error
\* and without a token
C30_LoginNeedsPassword ==
    \A r \in Requests :
        (/\ req[r].kind = "login" /\ req[r].pc = "done"
         /\ users[req[r].w].exists
         /\ ~Compare(req[r].password, users[req[r].w].password))
        => /\ req[r].resp.error = "invalid_credentials"
           /\ req[r].resp.token = NoWorker
====
